---- MODULE Spec2Model ----
(***************************************************************************)
(* Model of src/app.py: the Streamlit point-of-sale of "Cuidado Capilar    *)
(* RD".  The state is the SQLite store (productos, ventas, ventas_detalle, *)
(* clientes), the invoice draft kept in st.session_state.factura and the   *)
(* result the last script run returned or displayed.                       *)
(*                                                                         *)
(* Money is REAL in the store; the model keeps it in whole currency units  *)
(* (integers), which is exact for the prices and tiers used here.          *)
(*                                                                         *)
(* Three specifications are given.  Spec is the application as the screens *)
(* drive it (one action per button).  SpecManager calls the manager        *)
(* methods directly with arbitrary small arguments, including those the    *)
(* widgets filter out (price <= 0, ids that are not in the table).         *)
(* SpecFallas adds to SpecManager the read operations and calls made while *)
(* another connection holds the database locked.                           *)
(***************************************************************************)
EXTENDS Integers, Sequences, FiniteSets, TLC

VARIABLES
    productos,       \* table productos: set of rows [id, nombre, precio]
    seq_productos,   \* AUTOINCREMENT counter of productos (ids are never reused)
    clientes,        \* table clientes: sequence of rows, id = index (no row is ever deleted)
    ventas,          \* table ventas: sequence of rows, id = index (no row is ever deleted)
    ventas_detalle,  \* table ventas_detalle: sequence of rows in rowid order
    factura,         \* st.session_state.factura, the invoice draft
    resultado,       \* what the last script run returned / displayed
    pasos            \* number of interactions so far (bounded by MaxPasos)

vars == <<productos, seq_productos, clientes, ventas, ventas_detalle, factura, resultado, pasos>>

-----------------------------------------------------------------------------
(* Bounds of the model *)

\* length of a session: number of button clicks / manager calls explored
MaxPasos == 6
\* largest quantity typed in the "Cantidad" number_input (min_value=1)
MaxCantidad == 3
\* length of a run of direct manager calls (SpecManager)
MaxLlamadas == 3
\* ids tried by direct manager calls: 1..MaxIdProbado
MaxIdProbado == 2

-----------------------------------------------------------------------------
(* Values *)

\* SQL NULL in an integer column (ids start at 1)
NULL == 0
\* no invoice number (numbers are texts)
SinNumero == ""

NombresProducto == {"Shampoo", "Gel"}
\* prices the product form accepts (number_input min_value=0.01)
PreciosUI == {80, 500}
\* prices passed by direct manager calls, including non-positive ones
PreciosProbados == {0 - 5, 0} \cup PreciosUI
\* options of the "Monto de descuento por unidad" selectbox
OpcionesDescuento == <<50, 100>>
Fechas == {"2026-11-01"}
\* quantities the "Cantidad" number_input is given: the smallest and the largest
Cantidades == {1, MaxCantidad}
\* f"FACT-{shortuuid.ShortUUID().random(length=10)}": the tokens the random
\* generator may return
NumerosFactura == {"FACT-3kTMd9xQpA", "FACT-Zr81LmcW2e"}
\* random.choices(ascii_uppercase + digits, k=4): the tokens it may return
RandomParts == {"7K2Q"}

Min(a, b) == IF a <= b THEN a ELSE b
Max(a, b) == IF a >= b THEN a ELSE b

RECURSIVE SumaSeq(_)
SumaSeq(s) == IF s = <<>> THEN 0 ELSE Head(s) + SumaSeq(Tail(s))

\* dict.get(k, d)
Get(d, k, def) == IF k \in DOMAIN d THEN d[k] ELSE def
\* d[k] = v on a dict
SetKey(d, k, v) == [x \in (DOMAIN d) \cup {k} |-> IF x = k THEN v ELSE d[x]]

\* Python None where a text is expected (texts are sequences of characters)
None == <<>>

FacturaVacia ==
    [items |-> <<>>, descuento |-> FALSE, codigo_usado |-> None, monto_descuento |-> 0]

\* the (success, message) pair a manager returns, or the message a screen
\* shows; numero_factura and codigo hold the payload of a successful
\* registrar_venta and agregar_cliente
Res(op, ok, msg) ==
    [op |-> op, ok |-> ok, msg |-> msg, numero_factura |-> SinNumero, codigo |-> None]
SinResultado == Res("", TRUE, "")

Contar == pasos < MaxPasos /\ pasos' = pasos + 1

-----------------------------------------------------------------------------
(* The store: statements and their constraints (init_db) *)

\* a connection that commits each statement as it runs: nothing is undone
RollbackPerdido(antes, parcial) == parcial

\* close() without commit discards the open transaction: what was written
\* since the last commit (parcial) is lost and the store is as before (antes)
Rollback(antes, parcial) == antes

IdsProductos(ps) == {p.id : p \in ps}

\* productos.nombre without its UNIQUE constraint
InsertProductoSinUnique(ps, seq, nombre, precio) ==
    IF ~(precio > 0)
    THEN [ok |-> FALSE, err |-> "CHECK constraint failed: precio > 0", productos |-> ps, seq |-> seq]
    ELSE [ok |-> TRUE, err |-> "",
          productos |-> ps \cup {[id |-> seq + 1, nombre |-> nombre, precio |-> precio]},
          seq |-> seq + 1]

\* INSERT INTO productos (nombre, precio): CHECK(precio > 0), nombre UNIQUE,
\* id from the AUTOINCREMENT counter
InsertProducto(ps, seq, nombre, precio) ==
    IF ~(precio > 0)
    THEN [ok |-> FALSE, err |-> "CHECK constraint failed: precio > 0", productos |-> ps, seq |-> seq]
    ELSE IF \E p \in ps : p.nombre = nombre
    THEN [ok |-> FALSE, err |-> "UNIQUE constraint failed: productos.nombre", productos |-> ps, seq |-> seq]
    ELSE [ok |-> TRUE, err |-> "",
          productos |-> ps \cup {[id |-> seq + 1, nombre |-> nombre, precio |-> precio]},
          seq |-> seq + 1]

\* UPDATE productos SET nombre = ?, precio = ? WHERE id = ?: the constraints
\* are checked on the rows the statement changes; with no such row it changes nothing
UpdateProducto(ps, id, nombre, precio) ==
    IF id \notin IdsProductos(ps)
    THEN [ok |-> TRUE, err |-> "", productos |-> ps]
    ELSE IF ~(precio > 0)
    THEN [ok |-> FALSE, err |-> "CHECK constraint failed: precio > 0", productos |-> ps]
    ELSE IF \E p \in ps : p.id # id /\ p.nombre = nombre
    THEN [ok |-> FALSE, err |-> "UNIQUE constraint failed: productos.nombre", productos |-> ps]
    ELSE [ok |-> TRUE, err |-> "",
          productos |-> {IF p.id = id THEN [id |-> id, nombre |-> nombre, precio |-> precio] ELSE p
                         : p \in ps}]

\* the foreign key declared ON DELETE CASCADE instead
OnDeleteProductoCascade(det, id) == SelectSeq(det, LAMBDA d : d.producto_id # id)

\* FOREIGN KEY(producto_id) REFERENCES productos(id) ON DELETE SET NULL
OnDeleteProducto(det, id) ==
    [i \in DOMAIN det |-> IF det[i].producto_id = id
                          THEN [det[i] EXCEPT !.producto_id = NULL]
                          ELSE det[i]]

\* DELETE FROM productos WHERE id = ? (PRAGMA foreign_keys = ON)
DeleteProducto(ps, det, id) ==
    [productos |-> {p \in ps : p.id # id}, ventas_detalle |-> OnDeleteProducto(det, id)]

\* ventas.numero_factura without its UNIQUE constraint
InsertVentaSinUnique(vs, fila) ==
    IF ~(fila.total >= 0)
    THEN [ok |-> FALSE, err |-> "CHECK constraint failed: total >= 0", ventas |-> vs]
    ELSE [ok |-> TRUE, err |-> "", ventas |-> Append(vs, fila)]

\* INSERT INTO ventas: CHECK(total >= 0), numero_factura UNIQUE
InsertVenta(vs, fila) ==
    IF ~(fila.total >= 0)
    THEN [ok |-> FALSE, err |-> "CHECK constraint failed: total >= 0", ventas |-> vs]
    ELSE IF \E i \in DOMAIN vs : vs[i].numero_factura = fila.numero_factura
    THEN [ok |-> FALSE, err |-> "UNIQUE constraint failed: ventas.numero_factura", ventas |-> vs]
    ELSE [ok |-> TRUE, err |-> "", ventas |-> Append(vs, fila)]

\* INSERT INTO ventas_detalle: CHECK(cantidad > 0), CHECK(precio_unitario > 0),
\* producto_id NULL or the id of a product row (venta_id is the row just inserted)
InsertDetalle(ps, det, fila) ==
    IF ~(fila.cantidad > 0)
    THEN [ok |-> FALSE, err |-> "CHECK constraint failed: cantidad > 0", ventas_detalle |-> det]
    ELSE IF ~(fila.precio_unitario > 0)
    THEN [ok |-> FALSE, err |-> "CHECK constraint failed: precio_unitario > 0", ventas_detalle |-> det]
    ELSE IF fila.producto_id # NULL /\ fila.producto_id \notin IdsProductos(ps)
    THEN [ok |-> FALSE, err |-> "FOREIGN KEY constraint failed", ventas_detalle |-> det]
    ELSE [ok |-> TRUE, err |-> "", ventas_detalle |-> Append(det, fila)]

-----------------------------------------------------------------------------
(* ProductoManager *)

agregar_producto(nombre, precio) ==
    LET r == InsertProducto(productos, seq_productos, nombre, precio) IN
    /\ Contar
    /\ productos' = r.productos
    /\ seq_productos' = r.seq
    /\ resultado' = IF r.ok
                    THEN Res("agregar_producto", TRUE, "Producto agregado exitosamente")
                    ELSE Res("agregar_producto", FALSE, "Error: El nombre del producto ya existe")
    /\ UNCHANGED <<clientes, ventas, ventas_detalle, factura>>

eliminar_producto(producto_id) ==
    LET r == DeleteProducto(productos, ventas_detalle, producto_id) IN
    /\ Contar
    /\ productos' = r.productos
    /\ ventas_detalle' = r.ventas_detalle
    /\ resultado' = Res("eliminar_producto", TRUE, "Producto eliminado exitosamente")
    /\ UNCHANGED <<seq_productos, clientes, ventas, factura>>

actualizar_producto(producto_id, nuevo_nombre, nuevo_precio) ==
    LET r == UpdateProducto(productos, producto_id, nuevo_nombre, nuevo_precio) IN
    /\ Contar
    /\ productos' = r.productos
    /\ resultado' = IF r.ok
                    THEN Res("actualizar_producto", TRUE, "Producto actualizado exitosamente")
                    ELSE Res("actualizar_producto", FALSE, "Error: El nuevo nombre ya existe")
    /\ UNCHANGED <<seq_productos, clientes, ventas, ventas_detalle, factura>>

-----------------------------------------------------------------------------
(* VentaManager *)

\* the ventas_detalle row written for a draft item (lines 141-144)
FilaDetalle(venta_id, item) ==
    [venta_id |-> venta_id,
     producto_id |-> item.producto_id,
     cantidad |-> item.cantidad,
     precio_unitario |-> item.precio,
     descuento_aplicado |-> Get(item, "descuento_total", 0)]

\* the loop of lines 141-144: one INSERT per item, stopping at the first that raises
RECURSIVE InsertDetalles(_, _, _, _)
InsertDetalles(ps, det, venta_id, items) ==
    IF items = <<>>
    THEN [ok |-> TRUE, err |-> "", ventas_detalle |-> det]
    ELSE LET r == InsertDetalle(ps, det, FilaDetalle(venta_id, Head(items))) IN
         IF r.ok THEN InsertDetalles(ps, r.ventas_detalle, venta_id, Tail(items)) ELSE r

\* the ventas row of lines 126-138.  producto is the ', '-joined names, kept
\* as the sequence of names (within the bounds the joined text is far below
\* the 255 characters at which line 134 truncates it)
FilaVenta(f, fecha, numero) ==
    [fecha |-> fecha,
     total |-> SumaSeq([i \in DOMAIN f.items |-> f.items[i].subtotal]),
     numero_factura |-> numero,
     descuento |-> IF f.descuento THEN f.monto_descuento ELSE 0,
     producto |-> [i \in DOMAIN f.items |-> f.items[i].nombre]]

\* registrar_venta as a function of the store: what it returns and what the
\* store holds once the connection is closed.  fecha is the clock's date and
\* numero the random token drawn on line 129.
RegistrarVenta(ps, vs, det, f, fecha, numero) ==
    LET antes == [ventas |-> vs, ventas_detalle |-> det]
        cab == InsertVenta(vs, FilaVenta(f, fecha, numero))
        lin == InsertDetalles(ps, det, Len(cab.ventas), f.items)
        falla(err, parcial) ==
            [ok |-> FALSE, msg |-> "Error al registrar venta", err |-> err,
             numero_factura |-> SinNumero, db |-> Rollback(antes, parcial)]
    IN  IF ~cab.ok
        THEN falla(cab.err, antes)
        ELSE IF ~lin.ok
        THEN falla(lin.err, [ventas |-> cab.ventas, ventas_detalle |-> lin.ventas_detalle])
        ELSE [ok |-> TRUE, msg |-> "", err |-> "", numero_factura |-> numero,
              db |-> [ventas |-> cab.ventas, ventas_detalle |-> lin.ventas_detalle]]

ResVenta(r) ==
    [op |-> "registrar_venta", ok |-> r.ok,
     msg |-> IF r.ok THEN "" ELSE r.msg \o ": " \o r.err,
     numero_factura |-> r.numero_factura, codigo |-> None]

registrar_venta(f, fecha, numero) ==
    LET r == RegistrarVenta(productos, ventas, ventas_detalle, f, fecha, numero) IN
    /\ Contar
    /\ ventas' = r.db.ventas
    /\ ventas_detalle' = r.db.ventas_detalle
    /\ resultado' = ResVenta(r)
    /\ UNCHANGED <<productos, seq_productos, clientes, factura>>

-----------------------------------------------------------------------------
(* ClienteManager *)

\* A name is the sequence of its whitespace-separated tokens (nombre.split()),
\* a token the sequence of its characters.
NombreAna == << <<"a", "n", "a">>, <<"d", "e">>, <<"p", "a", "z">> >>
NombreLuz == << <<"L", "u", "z">> >>
NombresCliente == {NombreAna, NombreLuz}
Cedulas == {"001-0000001-1", "002-0000002-2"}
Telefonos == {"829-555-0101"}
Direcciones == {"Pueblo Nuevo"}

\* str.upper() on one character
Upper(c) ==
    CASE c = "a" -> "A" [] c = "d" -> "D" [] c = "e" -> "E" [] c = "n" -> "N"
      [] c = "p" -> "P" [] c = "u" -> "U" [] c = "z" -> "Z" [] OTHER -> c

\* the first n elements of a sequence: s[:n]
Primeros(s, n) == SubSeq(s, 1, Min(n, Len(s)))

\* f"{iniciales}-{random_part}": the text as its sequence of characters, the
\* four random characters kept as one token
generar_codigo_descuento(nombre, random_part) ==
    LET partes == Primeros(nombre, 2)
        iniciales == [i \in DOMAIN partes |-> Upper(partes[i][1])]
    IN  iniciales \o <<"-", random_part>>

\* a code no customer can hold (texts typed into "Código de descuento")
CodigoInexistente == <<"X", "-", "0000">>

\* an INSERT INTO clientes on a table without its UNIQUE constraints
InsertClienteSinUnique(cs, nombre, cedula, telefono, direccion, codigo) ==
    [ok |-> TRUE, err |-> "",
     clientes |-> Append(cs, [nombre |-> nombre, cedula |-> cedula, telefono |-> telefono,
                              direccion |-> direccion, codigo_descuento |-> codigo,
                              activo |-> 1])]

\* INSERT INTO clientes: cedula UNIQUE, codigo_descuento UNIQUE, activo DEFAULT 1
InsertCliente(cs, nombre, cedula, telefono, direccion, codigo) ==
    IF \E i \in DOMAIN cs : cs[i].cedula = cedula
    THEN [ok |-> FALSE, err |-> "UNIQUE constraint failed: clientes.cedula", clientes |-> cs]
    ELSE IF \E i \in DOMAIN cs : cs[i].codigo_descuento = codigo
    THEN [ok |-> FALSE, err |-> "UNIQUE constraint failed: clientes.codigo_descuento", clientes |-> cs]
    ELSE [ok |-> TRUE, err |-> "",
          clientes |-> Append(cs, [nombre |-> nombre, cedula |-> cedula, telefono |-> telefono,
                                   direccion |-> direccion, codigo_descuento |-> codigo,
                                   activo |-> 1])]

\* UPDATE clientes SET nombre, cedula, telefono, direccion WHERE id = ?
UpdateCliente(cs, id, nombre, cedula, telefono, direccion) ==
    IF id \notin DOMAIN cs
    THEN [ok |-> TRUE, err |-> "", clientes |-> cs]
    ELSE IF \E i \in DOMAIN cs : i # id /\ cs[i].cedula = cedula
    THEN [ok |-> FALSE, err |-> "UNIQUE constraint failed: clientes.cedula", clientes |-> cs]
    ELSE [ok |-> TRUE, err |-> "",
          clientes |-> [cs EXCEPT ![id] = [@ EXCEPT !.nombre = nombre, !.cedula = cedula,
                                                    !.telefono = telefono,
                                                    !.direccion = direccion]]]

\* a hard delete: DELETE FROM clientes WHERE id = ?
BorrarCliente(cs, id) ==
    [i \in 1..(Len(cs) - (IF id \in DOMAIN cs THEN 1 ELSE 0)) |->
        IF i < id THEN cs[i] ELSE cs[i + 1]]

\* UPDATE clientes SET activo = 0 WHERE id = ?
DesactivarCliente(cs, id) ==
    [i \in DOMAIN cs |-> IF i = id THEN [cs[i] EXCEPT !.activo = 0] ELSE cs[i]]

\* a row of SELECT * FROM clientes
FilaCliente(cs, i) ==
    [id |-> i, nombre |-> cs[i].nombre, cedula |-> cs[i].cedula, telefono |-> cs[i].telefono,
     direccion |-> cs[i].direccion, codigo_descuento |-> cs[i].codigo_descuento,
     activo |-> cs[i].activo]

obtener_clientes(cs, activos) ==
    IF activos
    THEN {FilaCliente(cs, i) : i \in {j \in DOMAIN cs : cs[j].activo = 1}}
    ELSE {FilaCliente(cs, i) : i \in DOMAIN cs}

ResCliente(op, ok, msg, codigo) ==
    [op |-> op, ok |-> ok, msg |-> msg, numero_factura |-> SinNumero, codigo |-> codigo]

agregar_cliente(nombre, cedula, telefono, direccion, random_part) ==
    LET codigo == generar_codigo_descuento(nombre, random_part)
        r == InsertCliente(clientes, nombre, cedula, telefono, direccion, codigo)
    IN  /\ Contar
        /\ clientes' = r.clientes
        /\ resultado' = IF r.ok
                        THEN ResCliente("agregar_cliente", TRUE, "", codigo)
                        ELSE Res("agregar_cliente", FALSE, "Error: Cédula o código ya existen")
        /\ UNCHANGED <<productos, seq_productos, ventas, ventas_detalle, factura>>

actualizar_cliente(cliente_id, nombre, cedula, telefono, direccion) ==
    LET r == UpdateCliente(clientes, cliente_id, nombre, cedula, telefono, direccion) IN
    /\ Contar
    /\ clientes' = r.clientes
    /\ resultado' = IF r.ok
                    THEN Res("actualizar_cliente", TRUE, "Cliente actualizado")
                    ELSE Res("actualizar_cliente", FALSE, "Error: Cédula ya existe")
    /\ UNCHANGED <<productos, seq_productos, ventas, ventas_detalle, factura>>

eliminar_cliente(cliente_id) ==
    /\ Contar
    /\ clientes' = DesactivarCliente(clientes, cliente_id)
    /\ resultado' = Res("eliminar_cliente", TRUE, "Cliente desactivado")
    /\ UNCHANGED <<productos, seq_productos, ventas, ventas_detalle, factura>>

-----------------------------------------------------------------------------
(* pantalla_facturacion.  Every click reruns the whole script: the handler *)
(* of the clicked button, then the "Factura Actual" column (lines 422-490). *)

\* the tier taken as it is, with no cap at the unit price
DescuentoSinTope(monto, precio) == monto

\* line 430: the per-unit discount of a line
DescuentoPorUnidad(monto, precio) == Min(monto, precio)

\* lines 431-433 and 439: the subtotal shown for a line
SubtotalMostrado(f, item) ==
    IF f.descuento
    THEN Max((item.precio * item.cantidad)
             - (DescuentoPorUnidad(f.monto_descuento, item.precio) * item.cantidad), 0)
    ELSE item.precio * item.cantidad

\* line 451: "Total a Pagar"
TotalAPagar(f) == SumaSeq([i \in DOMAIN f.items |-> SubtotalMostrado(f, f.items[i])])

\* lines 424-439: what rendering the draft writes back into the session
\* state: with a discount, each item's descuento_total (and nothing else)
Render(f) ==
    IF f.items # <<>> /\ f.descuento
    THEN [f EXCEPT !.items =
             [i \in DOMAIN f.items |->
                 SetKey(f.items[i], "descuento_total",
                        DescuentoPorUnidad(f.monto_descuento, f.items[i].precio)
                        * f.items[i].cantidad)]]
    ELSE f

\* lines 402-408: the selectbox exists only while descuento is set; it keeps
\* its value across reruns and starts at its first option when it is created
MontoSeleccionado(f) == IF f.descuento THEN f.monto_descuento ELSE OpcionesDescuento[1]

\* "Agregar a la factura" (lines 372-387) with the selected product row
AgregarALaFactura(p, cantidad) ==
    LET nuevo_item == [producto_id |-> p.id, nombre |-> p.nombre, precio |-> p.precio,
                       cantidad |-> cantidad, subtotal |-> cantidad * p.precio]
    IN  /\ Contar
        /\ p \in productos
        /\ factura' = Render([factura EXCEPT !.items = Append(@, nuevo_item)])
        /\ resultado' = Res("agregar_a_factura", TRUE, "Producto agregado a la factura")
        /\ UNCHANGED <<productos, seq_productos, clientes, ventas, ventas_detalle>>

\* "Validar Código" (lines 392-408)
ValidarCodigo(codigo) ==
    LET cliente == {i \in DOMAIN clientes : clientes[i].codigo_descuento = codigo} IN
    /\ Contar
    /\ IF cliente # {}
       THEN /\ factura' = Render([factura EXCEPT !.descuento = TRUE,
                                                 !.codigo_usado = codigo,
                                                 !.monto_descuento = MontoSeleccionado(factura)])
            /\ resultado' = Res("validar_codigo", TRUE,
                                "Código válido. Seleccione monto del descuento.")
       ELSE /\ factura' = Render(factura)
            /\ resultado' = Res("validar_codigo", FALSE, "Código inválido")
    /\ UNCHANGED <<productos, seq_productos, clientes, ventas, ventas_detalle>>

\* choosing an option of "Monto de descuento por unidad" (lines 403-408)
SeleccionarMonto(monto) ==
    /\ Contar
    /\ factura.descuento
    /\ factura' = Render([factura EXCEPT !.monto_descuento = monto])
    /\ resultado' = SinResultado
    /\ UNCHANGED <<productos, seq_productos, clientes, ventas, ventas_detalle>>

\* "Remover Descuento" (lines 410-420)
RemoverDescuento ==
    /\ Contar
    /\ factura.descuento
    /\ factura' = Render([items |-> [i \in DOMAIN factura.items |->
                                        [factura.items[i] EXCEPT
                                            !.subtotal = factura.items[i].precio
                                                         * factura.items[i].cantidad]],
                          descuento |-> FALSE,
                          codigo_usado |-> None,
                          monto_descuento |-> 0])
    /\ resultado' = SinResultado
    /\ UNCHANGED <<productos, seq_productos, clientes, ventas, ventas_detalle>>

\* the button alone, without the test of the total
PuedeFinalizarSiempre(total) == TRUE

\* line 460: `and total > 0`
PuedeFinalizar(total) == total > 0

\* a handler that keeps the draft whatever registrar_venta returned
FacturaSinReiniciar(success, f) == f

\* lines 462-477: the draft after registrar_venta returned (success, _)
FacturaTrasRegistrar(success, f) == IF success THEN FacturaVacia ELSE f

\* "Finalizar Venta" (lines 451-479); the button exists only with items
FinalizarVenta(fecha, numero) ==
    LET f == Render(factura)
        r == RegistrarVenta(productos, ventas, ventas_detalle, f, fecha, numero)
    IN  /\ Contar
        /\ factura.items # <<>>
        /\ IF PuedeFinalizar(TotalAPagar(f))
           THEN /\ ventas' = r.db.ventas
                /\ ventas_detalle' = r.db.ventas_detalle
                /\ resultado' = ResVenta(r)
                /\ factura' = FacturaTrasRegistrar(r.ok, f)
           ELSE /\ resultado' = Res("finalizar_venta", FALSE,
                                    "El total debe ser mayor a $0. Ajuste los descuentos.")
                /\ factura' = f
                /\ UNCHANGED <<ventas, ventas_detalle>>
        /\ UNCHANGED <<productos, seq_productos, clientes>>

\* "Limpiar Factura" (lines 481-488); the button exists only with items
LimpiarFactura ==
    /\ Contar
    /\ factura.items # <<>>
    /\ factura' = Render(FacturaVacia)
    /\ resultado' = SinResultado
    /\ UNCHANGED <<productos, seq_productos, clientes, ventas, ventas_detalle>>

-----------------------------------------------------------------------------
(* pantalla_gestion_productos and pantalla_gestion_clientes: the forms call *)
(* the managers with what their widgets let through                         *)

PantallaAgregarProducto ==
    \E nombre \in NombresProducto, precio \in PreciosUI : agregar_producto(nombre, precio)

PantallaEditarProducto ==
    \E p \in productos, nuevo_nombre \in NombresProducto, nuevo_precio \in PreciosUI :
        actualizar_producto(p.id, nuevo_nombre, nuevo_precio)

PantallaEliminarProducto ==
    \E p \in productos : eliminar_producto(p.id)

PantallaRegistrarCliente ==
    \E nombre \in NombresCliente, cedula \in Cedulas, telefono \in Telefonos,
       direccion \in Direcciones, random_part \in RandomParts :
        agregar_cliente(nombre, cedula, telefono, direccion, random_part)

PantallaEditarCliente ==
    \E c \in obtener_clientes(clientes, TRUE), nombre \in NombresCliente, cedula \in Cedulas,
       telefono \in Telefonos, direccion \in Direcciones :
        actualizar_cliente(c.id, nombre, cedula, telefono, direccion)

PantallaEliminarCliente ==
    \E c \in obtener_clientes(clientes, TRUE) : eliminar_cliente(c.id)

PantallaFacturacion ==
    \/ \E p \in productos, cantidad \in Cantidades : AgregarALaFactura(p, cantidad)
    \/ \E codigo \in {clientes[i].codigo_descuento : i \in DOMAIN clientes}
                     \cup {CodigoInexistente} : ValidarCodigo(codigo)
    \/ \E monto \in {OpcionesDescuento[i] : i \in DOMAIN OpcionesDescuento} :
           SeleccionarMonto(monto)
    \/ RemoverDescuento
    \/ \E fecha \in Fechas, numero \in NumerosFactura : FinalizarVenta(fecha, numero)
    \/ LimpiarFactura

-----------------------------------------------------------------------------
(* The application: an empty store (init_db) and an empty draft *)

Init ==
    /\ productos = {}
    /\ seq_productos = 0
    /\ clientes = <<>>
    /\ ventas = <<>>
    /\ ventas_detalle = <<>>
    /\ factura = FacturaVacia
    /\ resultado = SinResultado
    /\ pasos = 0

Next ==
    \/ PantallaAgregarProducto
    \/ PantallaEditarProducto
    \/ PantallaEliminarProducto
    \/ PantallaRegistrarCliente
    \/ PantallaEditarCliente
    \/ PantallaEliminarCliente
    \/ PantallaFacturacion

Spec == Init /\ [][Next]_vars

-----------------------------------------------------------------------------
(* The managers called directly, with arguments the screens never pass *)

\* draft items handed to registrar_venta directly: a well-formed line, a line
\* with quantity 0, a line with price 0 and a line on the last id tried
ItemProbado(id, precio, cantidad) ==
    [producto_id |-> id, nombre |-> "Shampoo", precio |-> precio, cantidad |-> cantidad,
     subtotal |-> precio * cantidad]

ItemsProbados ==
    {ItemProbado(1, 80, MaxCantidad), ItemProbado(1, 80, 0), ItemProbado(1, 0, MaxCantidad),
     ItemProbado(MaxIdProbado, 80, 1)}

FacturasProbadas ==
    {[items |-> items, descuento |-> FALSE, codigo_usado |-> None, monto_descuento |-> 0] :
        items \in {<<>>} \cup {<<a>> : a \in ItemsProbados}
                         \cup {<<a, b>> : a \in ItemsProbados, b \in ItemsProbados}}

LlamarAgregarProducto ==
    /\ pasos < MaxLlamadas
    /\ \E nombre \in NombresProducto, precio \in PreciosProbados : agregar_producto(nombre, precio)

LlamarActualizarProducto ==
    /\ pasos < MaxLlamadas
    /\ \E id \in 1..MaxIdProbado, nuevo_nombre \in NombresProducto, nuevo_precio \in PreciosProbados :
        actualizar_producto(id, nuevo_nombre, nuevo_precio)

LlamarEliminarProducto ==
    /\ pasos < MaxLlamadas
    /\ \E id \in 1..MaxIdProbado : eliminar_producto(id)

LlamarRegistrarVenta ==
    /\ pasos < MaxLlamadas
    /\ \E f \in FacturasProbadas, fecha \in Fechas, numero \in NumerosFactura :
        registrar_venta(f, fecha, numero)

LlamarAgregarCliente ==
    /\ pasos < MaxLlamadas
    /\ \E nombre \in NombresCliente, cedula \in Cedulas, telefono \in Telefonos,
       direccion \in Direcciones, random_part \in RandomParts :
        agregar_cliente(nombre, cedula, telefono, direccion, random_part)

LlamarActualizarCliente ==
    /\ pasos < MaxLlamadas
    /\ \E id \in 1..MaxIdProbado, nombre \in NombresCliente, cedula \in Cedulas,
       telefono \in Telefonos, direccion \in Direcciones :
        actualizar_cliente(id, nombre, cedula, telefono, direccion)

LlamarEliminarCliente ==
    /\ pasos < MaxLlamadas
    /\ \E id \in 1..MaxIdProbado : eliminar_cliente(id)

NextManager ==
    \/ LlamarAgregarProducto
    \/ LlamarActualizarProducto
    \/ LlamarEliminarProducto
    \/ LlamarRegistrarVenta
    \/ LlamarAgregarCliente
    \/ LlamarActualizarCliente
    \/ LlamarEliminarCliente

SpecManager == Init /\ [][NextManager]_vars

-----------------------------------------------------------------------------
(* The managers on a database file that another connection may hold locked: *)
(* every statement of a call made meanwhile raises sqlite3.OperationalError *)

\* str(e) of that exception
DatabaseLocked == "database is locked"

\* the outcome of a call that returned rows (fetchall)
Filas(op, filas) == [op |-> op, filas |-> filas]

\* the outcome of a call whose exception left the manager uncaught
Excepcion(op, e) == [op |-> op, excepcion |-> e]

\* ProductoManager.obtener_productos: no try/except around the SELECT
obtener_productos(bloqueado) ==
    /\ Contar
    /\ resultado' = IF bloqueado
                    THEN Excepcion("obtener_productos", DatabaseLocked)
                    ELSE Filas("obtener_productos", productos)
    /\ UNCHANGED <<productos, seq_productos, clientes, ventas, ventas_detalle, factura>>

\* VentaManager.obtener_ventas_por_fecha: no try/except around the SELECT
obtener_ventas_por_fecha(fecha, bloqueado) ==
    /\ Contar
    /\ resultado' = IF bloqueado
                    THEN Excepcion("obtener_ventas_por_fecha", DatabaseLocked)
                    ELSE Filas("obtener_ventas_por_fecha",
                               SelectSeq(ventas, LAMBDA v : v.fecha = fecha))
    /\ UNCHANGED <<productos, seq_productos, clientes, ventas, ventas_detalle, factura>>

\* ClienteManager.obtener_clientes as a call: no try/except around the SELECT
LeerClientes(activos, bloqueado) ==
    /\ Contar
    /\ resultado' = IF bloqueado
                    THEN Excepcion("obtener_clientes", DatabaseLocked)
                    ELSE Filas("obtener_clientes", obtener_clientes(clientes, activos))
    /\ UNCHANGED <<productos, seq_productos, clientes, ventas, ventas_detalle, factura>>

\* the text each writing method puts before str(e) in its `except Exception`
PrefijoError(op) ==
    CASE op \in {"agregar_producto", "actualizar_producto"} -> "Error inesperado: "
      [] op = "eliminar_producto" -> "No se puede eliminar: "
      [] op = "registrar_venta" -> "Error al registrar venta: "
      [] OTHER -> "Error: "

Escrituras ==
    {"agregar_producto", "eliminar_producto", "actualizar_producto", "registrar_venta",
     "agregar_cliente", "actualizar_cliente", "eliminar_cliente"}

\* a writing method called while the database is locked: its first statement
\* raises, `except Exception` returns (False, message), nothing is written
EscrituraBloqueada(op) ==
    /\ Contar
    /\ resultado' = Res(op, FALSE, PrefijoError(op) \o DatabaseLocked)
    /\ UNCHANGED <<productos, seq_productos, clientes, ventas, ventas_detalle, factura>>

LlamarObtenerProductos ==
    /\ pasos < MaxLlamadas
    /\ \E bloqueado \in BOOLEAN : obtener_productos(bloqueado)

LlamarObtenerVentasPorFecha ==
    /\ pasos < MaxLlamadas
    /\ \E fecha \in Fechas, bloqueado \in BOOLEAN : obtener_ventas_por_fecha(fecha, bloqueado)

LlamarObtenerClientes ==
    /\ pasos < MaxLlamadas
    /\ \E activos \in BOOLEAN, bloqueado \in BOOLEAN : LeerClientes(activos, bloqueado)

LlamarEscrituraBloqueada ==
    /\ pasos < MaxLlamadas
    /\ \E op \in Escrituras : EscrituraBloqueada(op)

NextFallas ==
    \/ LlamarAgregarProducto
    \/ LlamarActualizarProducto
    \/ LlamarEliminarProducto
    \/ LlamarRegistrarVenta
    \/ LlamarAgregarCliente
    \/ LlamarActualizarCliente
    \/ LlamarEliminarCliente
    \/ LlamarEscrituraBloqueada
    \/ LlamarObtenerProductos
    \/ LlamarObtenerVentasPorFecha
    \/ LlamarObtenerClientes

SpecFallas == Init /\ [][NextFallas]_vars

-----------------------------------------------------------------------------
(* Properties *)

\* the ventas_detalle rows of sale venta_id, in insertion order
LineasDe(venta_id) == SelectSeq(ventas_detalle, LAMBDA d : d.venta_id = venta_id)

\* the discounted total of a persisted sale as the specification defines it:
\* sum of price x quantity minus min(tier, price) x quantity per line when a
\* discount was applied (ventas.descuento holds the tier then), floored at 0
TotalEsperado(venta_id) ==
    LET lineas == LineasDe(venta_id)
        tier == ventas[venta_id].descuento
    IN  Max(SumaSeq([i \in DOMAIN lineas |->
                        (lineas[i].precio_unitario * lineas[i].cantidad)
                        - (IF tier > 0
                           THEN Min(tier, lineas[i].precio_unitario) * lineas[i].cantidad
                           ELSE 0)]),
            0)

\* pantalla_reportes line 661: "Total Descuentos" of the report of a date,
\* df['Descuento'].sum() over the rows of obtener_ventas_por_fecha
TotalDescuentos(fecha) ==
    LET filas == SelectSeq(ventas, LAMBDA v : v.fecha = fecha)
    IN  SumaSeq([i \in DOMAIN filas |-> filas[i].descuento])

\* the amount taken off sale venta_id: the sum of descuento_aplicado over its lines
DescuentoOtorgado(venta_id) ==
    LET lineas == LineasDe(venta_id)
    IN  SumaSeq([i \in DOMAIN lineas |-> lineas[i].descuento_aplicado])

\* C1: the total persisted for every sale finalized on the invoicing screen
\* equals the sum of price x quantity over its lines minus the applicable
\* discount, floored at zero (the "Total a Pagar" shown to the user).
C1_TotalPersistido ==
    \A v \in DOMAIN ventas : ventas[v].total = TotalEsperado(v)

\* C2: registrar_venta is atomic.  A call either succeeds and adds the ventas
\* row and exactly one ventas_detalle row per draft item, in order, or fails
\* with (False, message) and leaves ventas and ventas_detalle as they were.
C2_Atomica ==
    [][\A f \in FacturasProbadas, fecha \in Fechas, numero \in NumerosFactura :
          registrar_venta(f, fecha, numero)
          => \/ /\ resultado'.ok
                /\ resultado'.numero_factura = numero
                /\ ventas' = Append(ventas, FilaVenta(f, fecha, numero))
                /\ Len(ventas_detalle') = Len(ventas_detalle) + Len(f.items)
                /\ SubSeq(ventas_detalle', 1, Len(ventas_detalle)) = ventas_detalle
                /\ \A i \in DOMAIN f.items :
                       ventas_detalle'[Len(ventas_detalle) + i]
                           = FilaDetalle(Len(ventas'), f.items[i])
             \/ /\ ~resultado'.ok
                /\ resultado'.msg # ""
                /\ ventas' = ventas
                /\ ventas_detalle' = ventas_detalle]_vars

\* C2 witness: a call failed on a line item (after its header row had been
\* inserted) and the store holds no sale.
C2_Witness ==
    /\ resultado.op = "registrar_venta"
    /\ ~resultado.ok
    /\ resultado.msg \in {"Error al registrar venta: CHECK constraint failed: cantidad > 0",
                          "Error al registrar venta: FOREIGN KEY constraint failed"}
    /\ ventas = <<>>
    /\ ventas_detalle = <<>>
    /\ productos # {}

\* C3: no two persisted sales carry the same invoice number; the number is
\* drawn in the step that commits the sale; a draw that equals a stored number
\* fails with (False, message) and leaves the stored sales unmodified.
C3_NumeroUnico ==
    /\ [](\A i, j \in DOMAIN ventas :
              i # j => ventas[i].numero_factura # ventas[j].numero_factura)
    /\ [][\A fecha \in Fechas, numero \in NumerosFactura :
             (resultado'.op = "registrar_venta" /\ FinalizarVenta(fecha, numero))
             => /\ (Len(ventas') = Len(ventas) + 1
                    => /\ ventas'[Len(ventas')].numero_factura = numero
                       /\ resultado'.numero_factura = numero)
                /\ ((PuedeFinalizar(TotalAPagar(Render(factura)))
                     /\ \E i \in DOMAIN ventas : ventas[i].numero_factura = numero)
                    => /\ resultado'.op = "registrar_venta"
                       /\ ~resultado'.ok
                       /\ resultado'.msg # ""
                       /\ ventas' = ventas
                       /\ ventas_detalle' = ventas_detalle)]_vars

\* C3 witness: a second sale drew the number of a stored one and was refused.
C3_Witness ==
    /\ Len(ventas) = 1
    /\ resultado.op = "registrar_venta"
    /\ ~resultado.ok
    /\ resultado.msg = "Error al registrar venta: UNIQUE constraint failed: ventas.numero_factura"

C5_NombreDuplicado ==
    [][\A nombre \in NombresProducto, precio \in PreciosProbados :
          (agregar_producto(nombre, precio) /\ \E p \in productos : p.nombre = nombre)
          => /\ ~resultado'.ok
             /\ resultado'.msg = "Error: El nombre del producto ya existe"
             /\ productos' = productos
             /\ seq_productos' = seq_productos]_vars

\* C5 witness: every name is taken and an agregar_producto has just failed.
C5_Witness ==
    /\ {p.nombre : p \in productos} = NombresProducto
    /\ resultado.op = "agregar_producto"
    /\ ~resultado.ok

\* C6: eliminar_cliente keeps the row and changes only its active flag; a
\* deactivated customer's row is never removed or changed afterwards, is not in
\* obtener_clientes(activos=True) and is in obtener_clientes(activos=False).
C6_BajaLogica ==
    /\ [](\A i \in DOMAIN clientes :
              clientes[i].activo = 0
              => /\ FilaCliente(clientes, i) \notin obtener_clientes(clientes, TRUE)
                 /\ FilaCliente(clientes, i) \in obtener_clientes(clientes, FALSE))
    /\ [][/\ Len(clientes') >= Len(clientes)
          /\ \A i \in DOMAIN clientes :
                 /\ clientes[i].activo = 0 => clientes'[i] = clientes[i]
                 /\ (eliminar_cliente(i) /\ clientes[i].activo = 1)
                    => /\ clientes' = [clientes EXCEPT ![i].activo = 0]
                       /\ resultado'.ok]_vars

\* C6 witness: a customer was deactivated and other operations followed.
C6_Witness ==
    /\ \E i \in DOMAIN clientes : clientes[i].activo = 0
    /\ resultado.op \in {"actualizar_cliente", "agregar_cliente"}
    /\ resultado.ok

\* C7: with a discount applied, the per-unit discount of each line is capped
\* at its unit price, so the effective unit price, the line discount and the
\* line subtotal are never negative, also when the tier exceeds the price.
C7_DescuentoAcotado ==
    factura.descuento
    => \A i \in DOMAIN factura.items :
           LET item == factura.items[i]
               por_unidad == DescuentoPorUnidad(factura.monto_descuento, item.precio)
           IN  /\ item.cantidad >= 1
               /\ por_unidad <= item.precio
               /\ item.precio - por_unidad >= 0
               /\ item.descuento_total = por_unidad * item.cantidad
               /\ item.descuento_total <= item.precio * item.cantidad
               /\ SubtotalMostrado(factura, item)
                      = (item.precio - por_unidad) * item.cantidad
               /\ SubtotalMostrado(factura, item) >= 0

\* C7 witness: a discounted draft holds a line whose unit price is below the tier.
C7_Witness ==
    /\ factura.descuento
    /\ \E i \in DOMAIN factura.items : factura.items[i].precio < factura.monto_descuento

\* C8: eliminar_producto on a product that persisted line items refer to
\* succeeds, removes only that product row, sets producto_id to NULL on the
\* referring rows and changes nothing else of ventas_detalle or ventas.
C8_EliminarProducto ==
    [][\A p \in productos :
          (eliminar_producto(p.id)
           /\ \E i \in DOMAIN ventas_detalle : ventas_detalle[i].producto_id = p.id)
          => /\ resultado'.ok
             /\ productos' = productos \ {p}
             /\ ventas' = ventas
             /\ DOMAIN ventas_detalle' = DOMAIN ventas_detalle
             /\ \A i \in DOMAIN ventas_detalle :
                    ventas_detalle'[i]
                        = IF ventas_detalle[i].producto_id = p.id
                          THEN [ventas_detalle[i] EXCEPT !.producto_id = NULL]
                          ELSE ventas_detalle[i]]_vars

\* C8 witness: a product was deleted and a persisted line item lost its reference.
C8_Witness ==
    /\ resultado.op = "eliminar_producto"
    /\ \E i \in DOMAIN ventas_detalle :
           /\ ventas_detalle[i].producto_id = NULL
           /\ ventas_detalle[i].cantidad > 0
           /\ ventas_detalle[i].precio_unitario > 0

\* C9: actualizar_producto with an id that is not in the catalog returns a
\* failure and leaves the catalog unchanged.
C9_IdAusente ==
    [][\A id \in 1..MaxIdProbado, nombre \in NombresProducto, precio \in PreciosProbados :
          (actualizar_producto(id, nombre, precio) /\ id \notin IdsProductos(productos))
          => (~resultado'.ok /\ productos' = productos)]_vars

\* C10: agregar_producto and actualizar_producto with a price <= 0 fail with a
\* failure that is not the duplicate-name failure when the name is unused,
\* leave the catalog unchanged, and every product row has price > 0.
C10_PrecioInvalido ==
    /\ [](\A p \in productos : p.precio > 0)
    /\ [][\A nombre \in NombresProducto, precio \in PreciosProbados :
             (precio <= 0 /\ ~(\E p \in productos : p.nombre = nombre))
             => /\ agregar_producto(nombre, precio)
                   => /\ ~resultado'.ok
                      /\ resultado'.msg # "Error: El nombre del producto ya existe"
                      /\ productos' = productos
                /\ \A id \in IdsProductos(productos) :
                       actualizar_producto(id, nombre, precio)
                       => /\ ~resultado'.ok
                          /\ resultado'.msg # "Error: El nuevo nombre ya existe"
                          /\ productos' = productos]_vars

\* C11: no two customer rows share a cedula or a discount code; an
\* agregar_cliente whose cedula or generated code is already stored, and an
\* actualizar_cliente of a stored customer whose new cedula is another
\* customer's, return the failure (no second attempt with another code) and
\* leave clientes as it was; no step changes the code of a stored customer.
C11_ClavesUnicas ==
    /\ [](\A i, j \in DOMAIN clientes :
              i # j => /\ clientes[i].cedula # clientes[j].cedula
                       /\ clientes[i].codigo_descuento # clientes[j].codigo_descuento)
    /\ [][\A nombre \in NombresCliente, cedula \in Cedulas, telefono \in Telefonos,
             direccion \in Direcciones, random_part \in RandomParts :
             (/\ agregar_cliente(nombre, cedula, telefono, direccion, random_part)
              /\ \E i \in DOMAIN clientes :
                     \/ clientes[i].cedula = cedula
                     \/ clientes[i].codigo_descuento
                            = generar_codigo_descuento(nombre, random_part))
             => /\ ~resultado'.ok
                /\ resultado'.msg = "Error: Cédula o código ya existen"
                /\ resultado'.codigo = None
                /\ clientes' = clientes]_vars
    /\ [][\A id \in DOMAIN clientes, nombre \in NombresCliente, cedula \in Cedulas,
             telefono \in Telefonos, direccion \in Direcciones :
             (/\ actualizar_cliente(id, nombre, cedula, telefono, direccion)
              /\ \E i \in DOMAIN clientes : i # id /\ clientes[i].cedula = cedula)
             => /\ ~resultado'.ok
                /\ resultado'.msg = "Error: Cédula ya existe"
                /\ clientes' = clientes]_vars
    /\ [][\A i \in DOMAIN clientes :
             /\ i \in DOMAIN clientes'
             /\ clientes'[i].codigo_descuento = clientes[i].codigo_descuento]_vars

\* C11 witness: two customers are stored and an actualizar_cliente that gave
\* one of them the other's cedula has just been refused.
C11_Witness ==
    /\ Len(clientes) = 2
    /\ resultado.op = "actualizar_cliente"
    /\ ~resultado.ok

\* C12: no manager call lets a store exception through: every call, the read
\* operations obtener_productos, obtener_ventas_por_fecha and obtener_clientes
\* included, ends in a returned value, never in an exception.
C12_SinPropagacion ==
    "excepcion" \notin DOMAIN resultado

\* C13: a successful "Finalizar Venta" and "Limpiar Factura" leave the draft
\* empty (no items, descuento False, codigo_usado None, monto_descuento 0), so
\* the next sale starts from nothing; a "Finalizar Venta" whose registrar_venta
\* failed leaves the draft, items and discount state, as it was.
C13_CicloBorrador ==
    [][/\ \A fecha \in Fechas, numero \in NumerosFactura :
             (resultado'.op = "registrar_venta" /\ FinalizarVenta(fecha, numero))
             => IF resultado'.ok
                THEN /\ factura'.items = <<>>
                     /\ factura'.descuento = FALSE
                     /\ factura'.codigo_usado = None
                     /\ factura'.monto_descuento = 0
                     /\ Len(ventas') = Len(ventas) + 1
                ELSE /\ factura' = factura
                     /\ ventas' = ventas
       /\ LimpiarFactura
             => /\ factura'.items = <<>>
                /\ factura'.descuento = FALSE
                /\ factura'.codigo_usado = None
                /\ factura'.monto_descuento = 0]_vars

\* C13 witness: a sale of two lines was recorded, the next draft holds only
\* the one item added since, and its registrar_venta has just failed.
C13_Witness ==
    /\ Len(ventas) = 1
    /\ Len(LineasDe(1)) = 2
    /\ Len(factura.items) = 1
    /\ resultado.op = "registrar_venta"
    /\ ~resultado.ok

\* C14: the discount code of a customer deactivated with eliminar_cliente is
\* no longer accepted: "Validar Código" with that code on a draft without a
\* discount leaves the draft's descuento flag False.
C14_CodigoDesactivado ==
    [][\A i \in DOMAIN clientes :
          (/\ clientes[i].activo = 0
           /\ ~factura.descuento
           /\ ValidarCodigo(clientes[i].codigo_descuento))
          => ~factura'.descuento]_vars

\* C15: a sale finalized while the draft has no discount (descuento False),
\* also after "Validar Código", the rendering of the discount and "Remover
\* Descuento" on the same draft, persists descuento = 0 on the sale and
\* descuento_aplicado = 0 on every one of its lines.
C15_SinDescuentoRancio ==
    [][\A fecha \in Fechas, numero \in NumerosFactura :
          (/\ resultado'.op = "registrar_venta"
           /\ ~factura.descuento
           /\ FinalizarVenta(fecha, numero)
           /\ resultado'.ok)
          => /\ ventas'[Len(ventas')].descuento = 0
             /\ \A i \in DOMAIN ventas_detalle' :
                    ventas_detalle'[i].venta_id = Len(ventas')
                    => ventas_detalle'[i].descuento_aplicado = 0]_vars

\* C16: for every persisted sale, ventas.descuento equals the sum of
\* descuento_aplicado over its lines, so the report's "Total Descuentos" of a
\* date is the sum of the discounts granted on the sales of that date.
C16_DescuentoDeLaVenta ==
    /\ \A v \in DOMAIN ventas : ventas[v].descuento = DescuentoOtorgado(v)
    /\ \A fecha \in Fechas :
           TotalDescuentos(fecha)
               = SumaSeq([v \in DOMAIN ventas |->
                             IF ventas[v].fecha = fecha THEN DescuentoOtorgado(v) ELSE 0])

====
